---- MODULE Spec2Model ----
(***************************************************************************)
(* Model of QGAN.py: a quantum GAN script.  Real data is loaded from      *)
(* files, normalised, a qubit discriminator and a photonic generator are  *)
(* trained one after the other with gradient descent, and diagnostic      *)
(* probabilities are printed.                                             *)
(*                                                                         *)
(* Numbers.  A vector is [num, den2] and stands for the reals              *)
(* num[k] / sqrt(den2); den2 = 0 is the result of dividing by a zero norm *)
(* (NaN entries).  A scalar is the rational [num, den]; den = 0 is NaN.   *)
(* Rotation angles are in units of pi and the Rot angle theta is 0 or 1,  *)
(* for which every gate of the circuit is a permutation of the basis up   *)
(* to phases, so that the PauliZ expectation is computed exactly.         *)
(* Generator weights are in tenths.                                       *)
(*                                                                         *)
(* CHOOSE y \in {F(x) : x \in {e}} : TRUE is F(e); it is written this way *)
(* where e is expensive, so that e is evaluated once.  \E x \in {e} : A   *)
(* does the same in an action.                                             *)
(***************************************************************************)
EXTENDS Integers, Naturals, Sequences, FiniteSets, TLC

VARIABLES pc, i, real_values, disc_weights, fake_values, norm_fake_values,
          gen_weights, cost, p_R, p_F, disc_steps, gen_steps,
          passed, reports, norm_arg, norm_ret, disc_updates, gen_updates,
          disc_weights0, abort_err, abort_at, fn_in, fn_out

vars == <<pc, i, real_values, disc_weights, fake_values, norm_fake_values,
          gen_weights, cost, p_R, p_F, disc_steps, gen_steps,
          passed, reports, norm_arg, norm_ret, disc_updates, gen_updates,
          disc_weights0, abort_err, abort_at, fn_in, fn_out>>

(* ------------------------------ bounds --------------------------------- *)

\* number of real data files read (the script reads 6)
m == 2
\* largest step count of a training loop (the script runs 50)
MaxSteps == 2
\* largest qubit count for which the circuit construction is enumerated
MaxQubits == 3
\* largest number of rows of an enumerated input file
MaxRows == 3

(* ----------------------------- constants ------------------------------- *)

num_qubits == 2
num_layers == 2

RECURSIVE Pow2(_)
Pow2(k) == IF k = 0 THEN 1 ELSE 2 * Pow2(k - 1)

n == Pow2(num_qubits)

(* ------------------------------ numbers -------------------------------- *)

Abs(x) == IF x < 0 THEN -x ELSE x

RECURSIVE SumSq(_)
SumSq(s) == IF s = <<>> THEN 0 ELSE Head(s) * Head(s) + SumSq(Tail(s))

Vec(num, den2) == [num |-> num, den2 |-> den2]
Rat(num, den) == [num |-> num, den |-> den]

NaNR == Rat(0, 0)
IsNaNVec(v) == v.den2 = 0
AllZero(v) == v.den2 # 0 /\ \A k \in DOMAIN v.num : v.num[k] = 0

\* a <= b, a = b for rationals with a positive denominator; any comparison
\* with NaN is false, as in Python
RLe(a, b) == a.den > 0 /\ b.den > 0 /\ a.num * b.den <= b.num * a.den
REq(a, b) == a.den > 0 /\ b.den > 0 /\ a.num * b.den = b.num * a.den
RSub(a, b) == IF a.den = 0 \/ b.den = 0 THEN NaNR
              ELSE Rat(a.num * b.den - b.num * a.den, a.den * b.den)
RNeg(a) == Rat(-a.num, a.den)

\* the outcome of a call: a value, or the exception that ended it
Ok(v) == [ok |-> TRUE, val |-> v, err |-> "none"]
Raise(e) == [ok |-> FALSE, val |-> NaNR, err |-> e]
OkVec(v) == [ok |-> TRUE, vec |-> v, err |-> "none"]
RaiseVec(e) == [ok |-> FALSE, vec |-> Vec(<<>>, 1), err |-> e]

(* ----------------------------- data loader ----------------------------- *)

\* np.loadtxt: a file of two or more rows is a 2-D array, a file of one row
\* is the 1-D array of its columns
loadtxt(file) == [ndim |-> IF Len(file) >= 2 THEN 2 ELSE 1, rows |-> file]

RECURSIVE Flatten(_)
Flatten(rows) ==
  IF rows = <<>> THEN <<>>
  ELSE SubSeq(Head(rows), 2, 4) \o Flatten(Tail(rows))

Min(a, b) == IF a <= b THEN a ELSE b

\* lines 52-58 for one file: the row of real_values for it (zeros before)
LoadFile(file, len) ==
  LET data == loadtxt(file) IN
  IF data.ndim # 2 THEN RaiseVec("IndexError")
  ELSE LET selected_data == Flatten(data.rows)
           k == Min(len, Len(selected_data))
       IN OkVec(Vec([x \in 1..len |-> IF x <= k THEN selected_data[x] ELSE 0], 1))

(* ------------------------------ normalize ------------------------------ *)

\* values / sqrt(sum(values ** 2)); a zero norm gives NaN entries, no error
normalize(values) ==
  IF values.den2 = 0 THEN values
  ELSE Vec(values.num, SumSq(values.num))

\* np.abs(1 - np.sum(v ** 2)) <= 0.0000001, that is
\* |den2 - sum(num ** 2)| <= den2 / 10^7, both sides of which are integers
UnitNorm(v) ==
  /\ v.den2 > 0
  /\ Abs(v.den2 - SumSq(v.num)) <= v.den2 \div 10000000

(* ----------------------------- discriminator --------------------------- *)

Gate(op, params, wires) == [op |-> op, params |-> params, wires |-> wires]

\* layer with the ring left open: the last CNOT targets wire num_wires
layer_nowrap(num_wires, W) ==
  [x \in 1..num_wires |-> Gate("Rot", W[x], <<x - 1>>)]
  \o [x \in 1..num_wires |-> Gate("CNOT", <<>>, <<x - 1, x>>)]

\* lines 102-106: the gates of one layer, in the order they are queued
layer(num_wires, W) ==
  [x \in 1..num_wires |-> Gate("Rot", W[x], <<x - 1>>)]
  \o [x \in 1..num_wires |-> Gate("CNOT", <<>>, <<x - 1, x % num_wires>>)]

RECURSIVE CircuitGates(_, _)
CircuitGates(q, weights) ==
  IF weights = <<>> THEN <<>>
  ELSE layer(q, Head(weights)) \o CircuitGates(q, Tail(weights))

\* wire 0 is the most significant bit of a basis index
Bit(b, w, q) == (b \div Pow2(q - 1 - w)) % 2
Flip(b, w, q) == IF Bit(b, w, q) = 0 THEN b + Pow2(q - 1 - w) ELSE b - Pow2(q - 1 - w)

\* the basis state a gate maps basis state b to (phases dropped)
GateMap(g, b, q) ==
  IF g.op = "Rot"
  THEN IF g.params[2] % 2 = 1 THEN Flip(b, g.wires[1], q) ELSE b
  ELSE IF Bit(b, g.wires[1], q) = 1 THEN Flip(b, g.wires[2], q) ELSE b

RECURSIVE ApplyGates(_, _, _)
\* the basis state the gates, applied in order, take basis state b to
ApplyGates(gates, b, q) ==
  IF gates = <<>> THEN b
  ELSE CHOOSE r \in {ApplyGates(rest, nb, q) :
                       rest \in {Tail(gates)}, nb \in {GateMap(Head(gates), b, q)}} : TRUE

RECURSIVE SumZ(_, _, _, _)
\* sum over the basis states 0..b of the squared amplitude, with the sign of
\* PauliZ on wire 0 at the basis state the gates take it to
SumZ(num, gates, b, q) ==
  IF b < 0 THEN 0
  ELSE (IF Bit(ApplyGates(gates, b, q), 0, q) = 0
        THEN num[b + 1] * num[b + 1]
        ELSE -(num[b + 1] * num[b + 1]))
       + SumZ(num, gates, b - 1, q)

\* lines 116-124: expectation of PauliZ on wire 0
real_disc_circuit(values, weights) ==
  IF values.den2 = 0 THEN NaNR
  ELSE CHOOSE r \in {Rat(SumZ(num, gates, Pow2(num_qubits) - 1, num_qubits), den2) :
                       num \in {values.num}, den2 \in {values.den2},
                       gates \in {CircuitGates(num_qubits, weights)}} : TRUE

(* ------------------------------ generator ------------------------------ *)

\* lines 152-160: the mean photon number of a displaced vacuum is the squared
\* displacement magnitude; the phase and the rotation leave it unchanged
mean_photon_gaussian(weights) ==
  Vec([x \in 1..n |-> weights[x][1] * weights[x][1]], 10000)

(* -------------------------------- costs -------------------------------- *)

InUnit(r) == RLe(Rat(-1, 1), r) /\ RLe(r, Rat(1, 1))

prob_real_true(values, weights) ==
  CHOOSE out \in
    { IF ~(RLe(Rat(-1, 1), r) /\ RLe(r, Rat(1, 1))) THEN Raise("AssertionError")
      ELSE LET p == Rat(r.num + r.den, 2 * r.den) IN
           IF ~(RLe(Rat(0, 1), p) /\ RLe(r, Rat(1, 1))) THEN Raise("AssertionError")
           ELSE Ok(p)
      : r \in {real_disc_circuit(values, weights)} } : TRUE

\* prob_fake_true with its assertions stripped
prob_fake_true_noassert(values, weights) ==
  CHOOSE out \in
    { Ok(Rat(r.num + r.den, 2 * r.den))
      : r \in {real_disc_circuit(values, weights)} } : TRUE

prob_fake_true(values, weights) ==
  CHOOSE out \in
    { IF ~(RLe(Rat(-1, 1), r) /\ RLe(r, Rat(1, 1))) THEN Raise("AssertionError")
      ELSE LET p == Rat(r.num + r.den, 2 * r.den) IN
           IF ~(RLe(Rat(0, 1), p) /\ RLe(r, Rat(1, 1))) THEN Raise("AssertionError")
           ELSE Ok(p)
      : r \in {real_disc_circuit(values, weights)} } : TRUE

\* lines 219-221; Python evaluates the left operand first
disc_cost(fake, real, weights) ==
  CHOOSE out \in
    { IF ~pf.ok THEN pf
      ELSE CHOOSE o \in { IF ~pr.ok THEN pr ELSE Ok(RSub(pf.val, pr.val))
                          : pr \in {prob_real_true(real, weights)} } : TRUE
      : pf \in {prob_fake_true(fake, weights)} } : TRUE

\* the vectors disc_cost hands to the discriminator before it returns or raises
disc_cost_passed(fake, real, weights) ==
  IF prob_fake_true(fake, weights).ok THEN {fake, real} ELSE {fake}

\* lines 233-241
gen_cost(params, weights) ==
  CHOOSE out \in
    { IF ~UnitNorm(nfv) THEN Raise("AssertionError")
      ELSE CHOOSE o \in { IF ~pf.ok THEN pf ELSE Ok(RNeg(pf.val))
                          : pf \in {prob_fake_true(nfv, weights)} } : TRUE
      : nfv \in {normalize(mean_photon_gaussian(params))} } : TRUE

gen_cost_passed(params, weights) ==
  {nfv \in {normalize(mean_photon_gaussian(params))} : UnitNorm(nfv)}

(* ------------------------------- inputs -------------------------------- *)

\* rows of an input file: timestamp, x-, y- and z-velocity
Rows == {<<1, 0, 0, 0>>, <<2, 1, 0, 2>>, <<3, 0, 0, 1>>}

RECURSIVE SeqsUpTo(_, _)
SeqsUpTo(S, len) ==
  IF len = 0 THEN {<<>>}
  ELSE LET shorter == SeqsUpTo(S, len - 1) IN
       shorter \cup {Append(s, x) : s \in {t \in shorter : Len(t) = len - 1}, x \in S}

\* input files of one to MaxRows rows
Files == SeqsUpTo(Rows, MaxRows) \ {<<>>}

\* the files the script is run on: a one-row file, a file of zero velocities,
\* and two files of non-zero velocities
ScriptFiles == { <<<<2, 1, 0, 2>>>>,
                 <<<<1, 0, 0, 0>>, <<1, 0, 0, 0>>>>,
                 <<<<2, 1, 0, 2>>, <<1, 0, 0, 0>>>>,
                 <<<<3, 0, 0, 1>>, <<2, 1, 0, 2>>>> }

\* discriminator weight tensors (layers x qubits x 3)
Tensor(a, b) ==
  [l \in 1..num_layers |->
     [w \in 1..num_qubits |->
        IF l = 1 /\ w = 1 THEN <<a, a, 0>>
        ELSE IF l = num_layers /\ w = num_qubits THEN <<0, b, b>>
        ELSE <<0, 0, 0>>]]

DiscChoices == {Tensor(a, b) : a \in {0, 1}, b \in {0, 1}}

\* 0.01 * np.random.randn(n), in hundredths
FakeChoices == { Vec([x \in 1..n |-> IF x = 1 THEN 1 ELSE 0], 10000),
                 Vec([x \in 1..n |-> IF x = 1 THEN 1 ELSE IF x = 2 THEN -1 ELSE 2], 10000) }

\* generator weight matrices (n x 3), in tenths
GenMatrix(a, b) == [x \in 1..n |-> IF x = 1 THEN <<a, b, b>> ELSE <<b, b, b>>]

GenChoices == {GenMatrix(1, 1), GenMatrix(2, 1), GenMatrix(0, 0)}

(* ------------------------------- script -------------------------------- *)

NoVec == Vec(<<>>, 1)
NoCall == [fn |-> "none", res |-> <<>>]

\* a loop that tests its bound after the body
LoopRuns_inclusive(idx, steps) == idx <= steps

\* for i in range(steps)
LoopRuns(idx, steps) == idx < steps

DiscComplete == pc \in {"report_real", "report_fake", "gen", "final", "done"}
GenComplete == pc \in {"final", "done"}

Report(label, value) ==
  [label |-> label, value |-> value, at |-> pc,
   after_disc |-> DiscComplete, after_gen |-> GenComplete]

Init ==
  /\ pc = "load"
  /\ i = 0
  /\ real_values = [x \in 1..m |-> Vec([y \in 1..n |-> 0], 1)]
  /\ disc_weights = <<>>
  /\ disc_weights0 = <<>>
  /\ fake_values = NoVec
  /\ norm_fake_values = NoVec
  /\ gen_weights = <<>>
  /\ cost = NaNR
  /\ p_R = NaNR
  /\ p_F = NaNR
  /\ disc_steps \in 0..MaxSteps
  /\ gen_steps \in 1..MaxSteps
  /\ passed = {}
  /\ reports = <<>>
  /\ norm_arg = NoVec
  /\ norm_ret = NoVec
  /\ disc_updates = 0
  /\ gen_updates = 0
  /\ abort_err = "none"
  /\ abort_at = "none"
  /\ fn_in = NoCall
  /\ fn_out = NoCall

\* an uncaught exception ends the process
Abort(err) ==
  /\ pc' = "aborted"
  /\ abort_err' = err
  /\ abort_at' = pc

Continue(next) ==
  /\ pc' = next
  /\ UNCHANGED <<abort_err, abort_at>>

\* lines 50-59, one file
LoadReal ==
  /\ pc = "load"
  /\ \E file \in ScriptFiles :
       LET r == LoadFile(file, n) IN
       IF r.ok
       THEN /\ real_values' = [real_values EXCEPT ![i + 1] = r.vec]
            /\ i' = IF i + 1 = m THEN 0 ELSE i + 1
            /\ Continue(IF i + 1 = m THEN "normalize" ELSE "load")
       ELSE /\ Abort(r.err)
            /\ UNCHANGED <<real_values, i>>
  /\ passed' = {}
  /\ UNCHANGED <<disc_weights, fake_values, norm_fake_values, gen_weights, cost,
                 p_R, p_F, disc_steps, gen_steps, reports, norm_arg, norm_ret,
                 disc_updates, gen_updates, disc_weights0, fn_in, fn_out>>

\* line 79
NormalizeReal ==
  /\ pc = "normalize"
  /\ norm_arg' = real_values[i + 1]
  /\ norm_ret' = normalize(real_values[i + 1])
  /\ real_values' = [real_values EXCEPT ![i + 1] = normalize(real_values[i + 1])]
  /\ Continue("assert_real")
  /\ passed' = {}
  /\ UNCHANGED <<i, disc_weights, fake_values, norm_fake_values, gen_weights, cost,
                 p_R, p_F, disc_steps, gen_steps, reports,
                 disc_updates, gen_updates, disc_weights0, fn_in, fn_out>>

\* line 81
AssertReal ==
  /\ pc = "assert_real"
  /\ IF UnitNorm(real_values[i + 1])
     THEN /\ i' = IF i + 1 = m THEN 0 ELSE i + 1
          /\ Continue(IF i + 1 = m THEN "disc_init" ELSE "normalize")
     ELSE /\ Abort("AssertionError")
          /\ UNCHANGED i
  /\ passed' = {}
  /\ UNCHANGED <<real_values, disc_weights, fake_values, norm_fake_values,
                 gen_weights, cost, p_R, p_F, disc_steps, gen_steps, reports,
                 norm_arg, norm_ret, disc_updates, gen_updates, disc_weights0,
                 fn_in, fn_out>>

\* lines 251-258
DiscInit ==
  /\ pc = "disc_init"
  /\ \E w \in DiscChoices : \E r \in {real_disc_circuit(real_values[1], w)} :
       /\ disc_weights' = w
       /\ disc_weights0' = w
       /\ IF InUnit(r)
          THEN Continue("fake_init")
          ELSE Abort("AssertionError")
  /\ passed' = {real_values[1]}
  /\ UNCHANGED <<i, real_values, fake_values, norm_fake_values, gen_weights, cost,
                 p_R, p_F, disc_steps, gen_steps, reports, norm_arg, norm_ret,
                 disc_updates, gen_updates, fn_in, fn_out>>

\* lines 266-271
FakeInit ==
  /\ pc = "fake_init"
  /\ \E f \in FakeChoices :
       /\ fake_values' = f
       /\ norm_fake_values' = normalize(f)
       /\ norm_arg' = f
       /\ norm_ret' = normalize(f)
       /\ IF UnitNorm(normalize(f))
          THEN Continue("verify_cost")
          ELSE Abort("AssertionError")
  /\ passed' = {}
  /\ UNCHANGED <<i, real_values, disc_weights, gen_weights, cost,
                 p_R, p_F, disc_steps, gen_steps, reports,
                 disc_updates, gen_updates, disc_weights0, fn_in, fn_out>>

\* lines 280-281
VerifyCost ==
  /\ pc = "verify_cost"
  /\ \E g \in {GenMatrix(1, 1)} : \E c \in {gen_cost(g, disc_weights)} :
       /\ gen_weights' = g
       /\ norm_arg' = mean_photon_gaussian(g)
       /\ norm_ret' = normalize(mean_photon_gaussian(g))
       /\ passed' = gen_cost_passed(g, disc_weights)
       /\ IF c.ok
          THEN Continue("disc")
          ELSE Abort(c.err)
  /\ i' = 0
  /\ UNCHANGED <<real_values, disc_weights, fake_values, norm_fake_values, cost,
                 p_R, p_F, disc_steps, gen_steps, reports,
                 disc_updates, gen_updates, disc_weights0, fn_in, fn_out>>

\* lines 297-301, one iteration: opt.step evaluates the cost at the current
\* weights to differentiate it, then the cost is evaluated at the new weights
DiscStep ==
  /\ pc = "disc"
  /\ LoopRuns(i, disc_steps)
  /\ \E j \in 1..m :
       \E real \in {real_values[j]} :
       \E fwd \in {disc_cost(fake_values, real, disc_weights)} :
          IF ~fwd.ok
          THEN /\ Abort(fwd.err)
               /\ passed' = disc_cost_passed(fake_values, real, disc_weights)
               /\ UNCHANGED <<disc_weights, disc_updates, cost, i>>
          ELSE \E w \in DiscChoices :
               /\ disc_weights' = w
               /\ disc_updates' = disc_updates + 1
               /\ \E c \in {disc_cost(fake_values, real, w)} :
                    IF c.ok
                    THEN /\ cost' = c.val
                         /\ i' = i + 1
                         /\ Continue("disc")
                    ELSE /\ Abort(c.err)
                         /\ UNCHANGED <<cost, i>>
               /\ passed' = {fake_values, real}
                              \cup disc_cost_passed(fake_values, real, w)
  /\ UNCHANGED <<real_values, fake_values, norm_fake_values, gen_weights,
                 p_R, p_F, disc_steps, gen_steps, reports, norm_arg, norm_ret,
                 gen_updates, disc_weights0, fn_in, fn_out>>

\* the discriminator loop left before its last iteration
DiscLoopEnd_early ==
  /\ pc = "disc"
  /\ Continue("report_real")
  /\ passed' = {}
  /\ UNCHANGED <<i, real_values, disc_weights, fake_values, norm_fake_values,
                 gen_weights, cost, p_R, p_F, disc_steps, gen_steps, reports,
                 norm_arg, norm_ret, disc_updates, gen_updates, disc_weights0,
                 fn_in, fn_out>>

\* line 297, the loop is exhausted
DiscLoopEnd ==
  /\ pc = "disc"
  /\ ~LoopRuns(i, disc_steps)
  /\ Continue("report_real")
  /\ passed' = {}
  /\ UNCHANGED <<i, real_values, disc_weights, fake_values, norm_fake_values,
                 gen_weights, cost, p_R, p_F, disc_steps, gen_steps, reports,
                 norm_arg, norm_ret, disc_updates, gen_updates, disc_weights0,
                 fn_in, fn_out>>

\* lines 307-309
ReportReal ==
  /\ pc = "report_real"
  /\ \E p \in {prob_real_true(real_values[1], disc_weights)} :
       IF p.ok /\ RLe(Rat(0, 1), p.val) /\ RLe(p.val, Rat(1, 1))
       THEN /\ p_R' = p.val
            /\ reports' = Append(reports, Report("Probability of real true", p.val))
            /\ Continue("report_fake")
       ELSE /\ Abort("AssertionError")
            /\ UNCHANGED <<p_R, reports>>
  /\ passed' = {real_values[1]}
  /\ UNCHANGED <<i, real_values, disc_weights, fake_values, norm_fake_values,
                 gen_weights, cost, p_F, disc_steps, gen_steps,
                 norm_arg, norm_ret, disc_updates, gen_updates, disc_weights0,
                 fn_in, fn_out>>

\* lines 310-311
ReportFake ==
  /\ pc = "report_fake"
  /\ \E p \in {prob_fake_true(fake_values, disc_weights)} :
       IF p.ok
       THEN /\ p_F' = p.val
            /\ reports' = Append(reports, Report("Probability of fake true", p.val))
            /\ Continue("gen")
       ELSE /\ Abort(p.err)
            /\ UNCHANGED <<p_F, reports>>
  /\ passed' = {fake_values}
  /\ i' = 0
  /\ UNCHANGED <<real_values, disc_weights, fake_values, norm_fake_values,
                 gen_weights, cost, p_R, disc_steps, gen_steps,
                 norm_arg, norm_ret, disc_updates, gen_updates, disc_weights0,
                 fn_in, fn_out>>

\* a generator step whose optimizer also moves the discriminator weights
GenStep_cotrain ==
  /\ pc = "gen"
  /\ LoopRuns(i, gen_steps)
  /\ \E g \in GenChoices, w \in DiscChoices :
       /\ gen_weights' = g
       /\ disc_weights' = w
       /\ gen_cost(g, w).ok
       /\ cost' = gen_cost(g, w).val
       /\ passed' = gen_cost_passed(g, w)
       /\ norm_arg' = mean_photon_gaussian(g)
       /\ norm_ret' = normalize(mean_photon_gaussian(g))
  /\ gen_updates' = gen_updates + 1
  /\ i' = i + 1
  /\ Continue("gen")
  /\ UNCHANGED <<real_values, fake_values, norm_fake_values,
                 p_R, p_F, disc_steps, gen_steps, reports,
                 disc_updates, disc_weights0, fn_in, fn_out>>

\* lines 326-329, one iteration
GenStep ==
  /\ pc = "gen"
  /\ LoopRuns(i, gen_steps)
  /\ \E fwd \in {gen_cost(gen_weights, disc_weights)} :
       IF ~fwd.ok
       THEN /\ Abort(fwd.err)
            /\ passed' = gen_cost_passed(gen_weights, disc_weights)
            /\ norm_arg' = mean_photon_gaussian(gen_weights)
            /\ norm_ret' = normalize(mean_photon_gaussian(gen_weights))
            /\ UNCHANGED <<gen_weights, gen_updates, cost, i>>
       ELSE \E g \in GenChoices :
            /\ gen_weights' = g
            /\ gen_updates' = gen_updates + 1
            /\ norm_arg' = mean_photon_gaussian(g)
            /\ norm_ret' = normalize(mean_photon_gaussian(g))
            /\ \E c \in {gen_cost(g, disc_weights)} :
                 IF c.ok
                 THEN /\ cost' = c.val
                      /\ i' = i + 1
                      /\ Continue("gen")
                 ELSE /\ Abort(c.err)
                      /\ UNCHANGED <<cost, i>>
            /\ passed' = gen_cost_passed(gen_weights, disc_weights)
                           \cup gen_cost_passed(g, disc_weights)
  /\ UNCHANGED <<real_values, disc_weights, fake_values, norm_fake_values,
                 p_R, p_F, disc_steps, gen_steps, reports,
                 disc_updates, disc_weights0, fn_in, fn_out>>

\* the generator loop left before its last iteration
GenLoopEnd_early ==
  /\ pc = "gen"
  /\ Continue("final")
  /\ passed' = {}
  /\ UNCHANGED <<i, real_values, disc_weights, fake_values, norm_fake_values,
                 gen_weights, cost, p_R, p_F, disc_steps, gen_steps, reports,
                 norm_arg, norm_ret, disc_updates, gen_updates, disc_weights0,
                 fn_in, fn_out>>

\* line 326, the loop is exhausted
GenLoopEnd ==
  /\ pc = "gen"
  /\ ~LoopRuns(i, gen_steps)
  /\ Continue("final")
  /\ passed' = {}
  /\ UNCHANGED <<i, real_values, disc_weights, fake_values, norm_fake_values,
                 gen_weights, cost, p_R, p_F, disc_steps, gen_steps, reports,
                 norm_arg, norm_ret, disc_updates, gen_updates, disc_weights0,
                 fn_in, fn_out>>

\* line 335
FinalPrint ==
  /\ pc = "final"
  /\ reports' = Append(reports, Report("Probability of real true", RNeg(cost)))
  /\ Continue("done")
  /\ passed' = {}
  /\ UNCHANGED <<i, real_values, disc_weights, fake_values, norm_fake_values,
                 gen_weights, cost, p_R, p_F, disc_steps, gen_steps,
                 norm_arg, norm_ret, disc_updates, gen_updates, disc_weights0,
                 fn_in, fn_out>>

Next ==
  \/ LoadReal
  \/ NormalizeReal
  \/ AssertReal
  \/ DiscInit
  \/ FakeInit
  \/ VerifyCost
  \/ DiscStep
  \/ DiscLoopEnd
  \/ ReportReal
  \/ ReportFake
  \/ GenStep
  \/ GenLoopEnd
  \/ FinalPrint

Spec == Init /\ [][Next]_vars

\* the interpreter runs the next statement as long as there is one
FairSpec == Spec /\ WF_vars(Next)

(* ------------------- single functions on enumerated inputs ------------- *)

\* the script's variables, unused while one function is exercised
Idle ==
  /\ i = 0
  /\ real_values = <<>>
  /\ disc_weights = <<>>
  /\ disc_weights0 = <<>>
  /\ fake_values = NoVec
  /\ norm_fake_values = NoVec
  /\ gen_weights = <<>>
  /\ cost = NaNR
  /\ p_R = NaNR
  /\ p_F = NaNR
  /\ disc_steps = 0
  /\ gen_steps = 0
  /\ passed = {}
  /\ reports = <<>>
  /\ norm_arg = NoVec
  /\ norm_ret = NoVec
  /\ disc_updates = 0
  /\ gen_updates = 0
  /\ abort_err = "none"
  /\ abort_at = "none"

Return(fn, res) ==
  /\ pc = "call"
  /\ pc' = "returned"
  /\ fn_out' = [fn |-> fn, res |-> res]
  /\ UNCHANGED <<i, real_values, disc_weights, fake_values, norm_fake_values,
                 gen_weights, cost, p_R, p_F, disc_steps, gen_steps,
                 passed, reports, norm_arg, norm_ret, disc_updates, gen_updates,
                 disc_weights0, abort_err, abort_at, fn_in>>

\* amplitude vectors of any norm, and the vector of NaN entries
ProbVectors ==
  {Vec(num, den2) : num \in [1..n -> 0..2], den2 \in {1, 2, 4, 5}}
  \cup {Vec([x \in 1..n |-> 0], 0)}

InitProb ==
  /\ pc = "call"
  /\ Idle
  /\ fn_in \in {[fn |-> "prob_true", values |-> v, weights |-> w] :
                  v \in ProbVectors, w \in DiscChoices}
  /\ fn_out = NoCall

CallProbReal ==
  /\ fn_in.fn = "prob_true"
  /\ Return("prob_real_true", prob_real_true(fn_in.values, fn_in.weights))

CallProbFake ==
  /\ fn_in.fn = "prob_true"
  /\ Return("prob_fake_true", prob_fake_true(fn_in.values, fn_in.weights))

NextProb == CallProbReal \/ CallProbFake

SpecProb == InitProb /\ [][NextProb]_vars

InitLoad ==
  /\ pc = "call"
  /\ Idle
  /\ fn_in \in {[fn |-> "load", file |-> f, len |-> Pow2(q)] :
                  f \in Files, q \in 2..MaxQubits}
  /\ fn_out = NoCall

CallLoad ==
  /\ fn_in.fn = "load"
  /\ Return("load", LoadFile(fn_in.file, fn_in.len))

NextLoad == CallLoad

SpecLoad == InitLoad /\ [][NextLoad]_vars

Angles == {<<0, 0, 0>>, <<1, 1, 0>>}

WeightTensors(q) == UNION {[1..L -> [1..q -> Angles]] : L \in 0..num_layers}

InitCircuit ==
  /\ pc = "call"
  /\ Idle
  /\ fn_in \in UNION {{[fn |-> "circuit", q |-> q, weights |-> w] :
                          w \in WeightTensors(q)} : q \in 2..MaxQubits}
  /\ fn_out = NoCall

CallCircuit ==
  /\ fn_in.fn = "circuit"
  /\ Return("circuit", CircuitGates(fn_in.q, fn_in.weights))

NextCircuit == CallCircuit

SpecCircuit == InitCircuit /\ [][NextCircuit]_vars

(* ------------------------------ properties ---------------------------- *)

\* C1: every vector handed to the discriminator circuit by the statement just
\* executed has unit norm within 1e-7.
C1_UnitNormInputs == \A v \in passed : UnitNorm(v)

\* position of a statement in the order DiscTraining, GenTraining, Done;
\* the statements before the first loop and the reports after it belong to
\* the discriminator phase
PhaseRank(p) ==
  IF p \in {"final", "done"} THEN 3
  ELSE IF p = "gen" THEN 2
  ELSE 1

\* C2: the phases follow each other in the order DiscTraining, GenTraining,
\* Done.  A discriminator update happens only in the discriminator loop and
\* only while no generator update has happened; a generator update happens
\* only in the generator loop, after all discriminator steps; the generator
\* phase is left only after all of its steps.
C2_PhaseOrder ==
  [][ /\ (disc_updates' # disc_updates =>
            pc = "disc" /\ gen_updates = 0 /\ gen_updates' = 0)
      /\ (gen_updates' # gen_updates =>
            pc = "gen" /\ disc_updates = disc_steps /\ disc_updates' = disc_updates)
      /\ (pc' # "aborted" =>
            PhaseRank(pc) <= PhaseRank(pc') /\ PhaseRank(pc') <= PhaseRank(pc) + 1)
      /\ (PhaseRank(pc') = 2 /\ PhaseRank(pc) = 1 => disc_updates = disc_steps)
      /\ (PhaseRank(pc') = 3 /\ PhaseRank(pc) = 2 =>
            disc_updates = disc_steps /\ gen_updates = gen_steps)
    ]_vars

C2_Witness ==
  /\ pc = "done"
  /\ disc_updates = disc_steps
  /\ gen_updates = gen_steps
  /\ disc_steps >= 2
  /\ gen_steps >= 2

\* the normalised output of the generator at the current weights
GeneratedVector == normalize(mean_photon_gaussian(gen_weights))

\* the value a report's label names
NamesReal(value) ==
  \E j \in 1..m : LET p == prob_real_true(real_values[j], disc_weights)
                  IN p.ok /\ REq(value, p.val)
NamesFake(value) ==
  \E v \in {fake_values, GeneratedVector} :
     LET p == prob_fake_true(v, disc_weights) IN p.ok /\ REq(value, p.val)

\* C3: every probability the script reports is reported after both training
\* loops are complete and is the quantity its label names, and in the terminal
\* state both the probability of real true and the probability of fake true
\* have been reported.
C3_FinalReports ==
  /\ \A k \in DOMAIN reports :
       /\ reports[k].after_disc
       /\ reports[k].after_gen
       /\ reports[k].label = "Probability of real true" => NamesReal(reports[k].value)
       /\ reports[k].label = "Probability of fake true" => NamesFake(reports[k].value)
  /\ pc = "done" =>
       /\ \E k \in DOMAIN reports : reports[k].label = "Probability of real true"
       /\ \E k \in DOMAIN reports : reports[k].label = "Probability of fake true"

ProbReturned ==
  pc = "returned" /\ fn_out.fn \in {"prob_real_true", "prob_fake_true"}

\* C4: prob_real_true and prob_fake_true return exactly when the expectation r
\* of the discriminator is in [-1,1]; the value returned is (r+1)/2 and lies
\* in [0,1] (0, 1/2 and 1 for r = -1, 0 and 1); for any other r the call ends
\* in an assertion failure.
C4_ProbRange ==
  ProbReturned =>
    LET r == real_disc_circuit(fn_in.values, fn_in.weights)
        out == fn_out.res
    IN /\ out.ok <=> InUnit(r)
       /\ ~out.ok => out.err = "AssertionError"
       /\ out.ok =>
            /\ out.val.num * 2 * r.den = (r.num + r.den) * out.val.den
            /\ RLe(Rat(0, 1), out.val) /\ RLe(out.val, Rat(1, 1))
            /\ (REq(r, Rat(-1, 1)) => REq(out.val, Rat(0, 1)))
            /\ (REq(r, Rat(0, 1)) => REq(out.val, Rat(1, 2)))
            /\ (REq(r, Rat(1, 1)) => REq(out.val, Rat(1, 1)))

C4_Witness ==
  /\ ProbReturned
  /\ fn_out.fn = "prob_fake_true"
  /\ ~fn_out.res.ok
  /\ RLe(Rat(2, 1), real_disc_circuit(fn_in.values, fn_in.weights))

\* C5: normalize, called on an all-zero vector, does not return a vector of
\* NaN entries to its caller.
C5_NoNaNFromNormalize ==
  (norm_arg.num # <<>> /\ AllZero(norm_arg)) => ~IsNaNVec(norm_ret)

\* C6: no step taken in or after the generator loop changes the discriminator
\* weights, and no step of the discriminator loop changes the generator
\* weights.
C6_Frame ==
  [][ /\ (pc = "gen" \/ DiscComplete => disc_weights' = disc_weights)
      /\ (pc = "disc" => gen_weights' = gen_weights)
    ]_vars

C6_Witness ==
  /\ pc = "done"
  /\ disc_updates >= 1
  /\ gen_updates >= 1
  /\ disc_weights # disc_weights0
  /\ gen_weights # GenMatrix(1, 1)

\* the p-th of the flattened data values of a file (timestamps dropped)
FlatValue(file, p) == file[((p - 1) \div 3) + 1][((p - 1) % 3) + 2]

\* C7: loading any file with k data values into a vector of length len
\* succeeds, and the vector has the first min(len, k) data values followed by
\* zeros.
C7_LoadPads ==
  (pc = "returned" /\ fn_out.fn = "load") =>
    LET file == fn_in.file
        len == fn_in.len
        k == 3 * Len(file)
        out == fn_out.res
    IN /\ out.ok
       /\ Len(out.vec.num) = len
       /\ \A p \in 1..len :
            out.vec.num[p] = IF p <= Min(len, k) THEN FlatValue(file, p) ELSE 0

C9_ZeroSteps ==
  (disc_steps = 0 /\ (DiscComplete \/ pc = "aborted"))
    => disc_weights = disc_weights0

C9_Witness ==
  /\ disc_steps = 0
  /\ pc = "report_real"
  /\ disc_weights = disc_weights0
  /\ disc_weights # <<>>

\* C10: for q >= 2 the gates queued for a weight tensor are, layer after
\* layer, Rot on wires 0..q-1 with that wire's three angles, then
\* CNOT(x, (x+1) mod q) for x = 0..q-1; every wire is in 0..q-1 and the two
\* wires of a CNOT differ.
C10_GateSequence ==
  (pc = "returned" /\ fn_out.fn = "circuit") =>
    LET q == fn_in.q
        W == fn_in.weights
        g == fn_out.res
    IN /\ Len(g) = 2 * q * Len(W)
       /\ \A l \in 1..Len(W), x \in 0..(q - 1) :
            /\ g[(l - 1) * 2 * q + x + 1] = Gate("Rot", W[l][x + 1], <<x>>)
            /\ g[(l - 1) * 2 * q + q + x + 1] = Gate("CNOT", <<>>, <<x, (x + 1) % q>>)
       /\ \A k \in 1..Len(g) :
            /\ \A y \in DOMAIN g[k].wires : g[k].wires[y] \in 0..(q - 1)
            /\ g[k].op = "CNOT" => g[k].wires[1] # g[k].wires[2]

C10_Witness ==
  /\ pc = "returned"
  /\ fn_out.fn = "circuit"
  /\ fn_in.q = 3
  /\ Len(fn_in.weights) = 2
  /\ fn_in.weights[2][3] = <<1, 1, 0>>
  /\ Len(fn_out.res) = 12

====
